---------------------------- MODULE Spec2Model ----------------------------
(***************************************************************************)
(* jsonl2csv (src/main.rs): a JSON-Lines file is converted to CSV.  The    *)
(* header is the key list of the first object; every record is written in  *)
(* header order, a missing key giving an empty field.                      *)
(*                                                                         *)
(* Text is modelled as TLA+ strings, read one character at a time with     *)
(* SubSeq.  The output file is modelled as the sequence of CSV records     *)
(* that reached it (a record is a sequence of field strings); the CSV      *)
(* writer's quoting of a field is below the level of this model.           *)
(***************************************************************************)
EXTENDS Integers, Sequences, FiniteSets, TLC

(***************************************************************************)
(* Bounds of the model.                                                    *)
(***************************************************************************)
\* Longest input, in lines.
MaxLines == 3
\* Records the writer's buffer holds before a write_record flushes it.
BufCap == 2

(***************************************************************************)
(* State.                                                                  *)
(***************************************************************************)
VARIABLES
    input,           \* the lines of the input file
    out_exists,      \* whether a file exists at the output path
    disk,            \* the records in the output file
    pc,              \* where main is: "open", "create", "lines", "flush", "done"
    idx,             \* the enumerate() index of the next line
    headers,         \* headers
    header_written,  \* header_written
    buf,             \* the records in wtr's buffer, not yet in the file
    printed,         \* whether the confirmation message is on stdout
    result,          \* what main returned: [kind, line]
    faulted,         \* whether a write to the output file has failed
    run,             \* which run of the converter this is (1 or 2)
    prev             \* what the first run left, once a second run has begun

vars == <<input, out_exists, disk, pc, idx, headers, header_written, buf,
          printed, result, faulted, run, prev>>

(***************************************************************************)
(* Characters.                                                             *)
(***************************************************************************)
CharAt(s, i) == IF i >= 1 /\ i <= Len(s) THEN SubSeq(s, i, i) ELSE ""

\* The characters of the inputs, in byte order.
Alphabet == "\t\f \",-.0123456789:[\\]abcdefghijklmnopqrstuvwxyz{}"

Code(c) == CHOOSE i \in 1..Len(Alphabet) : SubSeq(Alphabet, i, i) = c

Digits == "0123456789"

IsDigit(c) == \E i \in 1..10 : SubSeq(Digits, i, i) = c

DigitVal(c) == (CHOOSE i \in 1..10 : SubSeq(Digits, i, i) = c) - 1

\* str::trim strips Unicode White_Space (form feed included).
IsWhitespace(c) == c \in {" ", "\t", "\f", "\n", "\r"}

\* serde_json skips only these four between tokens.
IsJsonWs(c) == c \in {" ", "\t", "\n", "\r"}

RECURSIVE trim_start(_)
trim_start(s) ==
    IF Len(s) > 0 /\ IsWhitespace(CharAt(s, 1))
    THEN trim_start(SubSeq(s, 2, Len(s)))
    ELSE s

RECURSIVE trim_end(_)
trim_end(s) ==
    IF Len(s) > 0 /\ IsWhitespace(CharAt(s, Len(s)))
    THEN trim_end(SubSeq(s, 1, Len(s) - 1))
    ELSE s

trim(s) == trim_end(trim_start(s))

\* String order of Rust's str (bytewise lexicographic).
RECURSIVE StrLess(_, _)
StrLess(a, b) ==
    IF Len(b) = 0 THEN FALSE
    ELSE IF Len(a) = 0 THEN TRUE
    ELSE IF CharAt(a, 1) = CharAt(b, 1)
         THEN StrLess(SubSeq(a, 2, Len(a)), SubSeq(b, 2, Len(b)))
         ELSE Code(CharAt(a, 1)) < Code(CharAt(b, 1))

(***************************************************************************)
(* serde_json::Value and serde_json::Map.                                  *)
(* A Map is the sequence of its entries <<key, value>> in iteration order, *)
(* keys unique.                                                            *)
(***************************************************************************)
VNull == [t |-> "Null"]
VBool(b) == [t |-> "Bool", b |-> b]
\* Number::PosInt / Number::NegInt
VInt(n) == [t |-> "Int", n |-> n]
\* Number::Float: sign, integer part, fraction digits without trailing zeros
VFloat(neg, ip, fr) == [t |-> "Float", neg |-> neg, ip |-> ip, fr |-> fr]
VString(s) == [t |-> "String", s |-> s]
VArray(a) == [t |-> "Array", a |-> a]
VObject(m) == [t |-> "Object", m |-> m]

\* Whether serde_json is built with its "preserve_order" feature (Map is an
\* IndexMap, keys in insertion order) or without it (Map is a BTreeMap, keys
\* sorted).  The manifest that decides it is not among the sources; the
\* specification requires insertion order.
preserve_order == TRUE

contains_key(m, k) == \E i \in 1..Len(m) : m[i][1] = k

\* Map::get
get(m, k) == LET i == CHOOSE i \in 1..Len(m) : m[i][1] = k IN m[i][2]

\* keys() of a map whose iteration order differs from process to process.
keys_hashed(m) ==
    [i \in 1..Len(m) |-> IF run = 2 THEN m[Len(m) + 1 - i][1] ELSE m[i][1]]

\* Map::keys
keys(m) == [i \in 1..Len(m) |-> m[i][1]]

\* Map::insert: an existing key keeps its place and takes the new value; a
\* new key goes last (IndexMap) or to its sorted place (BTreeMap).
insert(m, k, v) ==
    IF contains_key(m, k)
    THEN [i \in 1..Len(m) |-> IF m[i][1] = k THEN <<k, v>> ELSE m[i]]
    ELSE IF preserve_order
         THEN Append(m, <<k, v>>)
         ELSE LET n == Cardinality({i \in 1..Len(m) : StrLess(m[i][1], k)})
              IN SubSeq(m, 1, n) \o <<<<k, v>>>> \o SubSeq(m, n + 1, Len(m))


(***************************************************************************)
(* serde_json::from_str on the JSON subset the inputs are written in:      *)
(* null, true, false, numbers -?digits(.digits)?, strings with the         *)
(* two-character escapes, arrays and objects.  Exponents, \b and \u        *)
(* escapes and integers beyond 64 bits are outside the subset.             *)
(* A parse step returns [ok, v, i]: success, the value, the next position. *)
(***************************************************************************)
Failed == [ok |-> FALSE, v |-> VNull, i |-> 0]

Parsed(v, i) == [ok |-> TRUE, v |-> v, i |-> i]

RECURSIVE skip_ws(_, _)
skip_ws(s, i) == IF IsJsonWs(CharAt(s, i)) THEN skip_ws(s, i + 1) ELSE i

\* A keyword (null, true, false) at position i.
parse_ident(s, i, word, v) ==
    IF i + Len(word) - 1 <= Len(s) /\ SubSeq(s, i, i + Len(word) - 1) = word
    THEN Parsed(v, i + Len(word))
    ELSE Failed

\* The value of a backslash escape, "" when it is not one.
Unescape(e) ==
    CASE e = "\"" -> "\""
      [] e = "\\" -> "\\"
      [] e = "/" -> "/"
      [] e = "n" -> "\n"
      [] e = "t" -> "\t"
      [] e = "r" -> "\r"
      [] e = "f" -> "\f"
      [] OTHER -> ""

\* The rest of a string literal, i just after the opening quote.
RECURSIVE parse_str(_, _, _)
parse_str(s, i, acc) ==
    LET c == CharAt(s, i) IN
    IF c = "" THEN Failed
    ELSE IF c = "\"" THEN Parsed(VString(acc), i + 1)
    ELSE IF c = "\\"
         THEN IF Unescape(CharAt(s, i + 1)) = "" THEN Failed
              ELSE parse_str(s, i + 2, acc \o Unescape(CharAt(s, i + 1)))
    ELSE IF c \in {"\t", "\n", "\r", "\f"} THEN Failed
    ELSE parse_str(s, i + 1, acc \o c)

\* The end of the run of digits that starts at i.
RECURSIVE digits_end(_, _)
digits_end(s, i) == IF IsDigit(CharAt(s, i)) THEN digits_end(s, i + 1) ELSE i

\* The number written by the digits s[i..j-1].
RECURSIVE digits_val(_, _, _)
digits_val(s, i, j) ==
    IF i >= j THEN 0
    ELSE digits_val(s, i, j - 1) * 10 + DigitVal(CharAt(s, j - 1))

\* Fraction digits without their trailing zeros ("0" when none is left).
RECURSIVE strip_zeros(_)
strip_zeros(d) ==
    IF Len(d) = 0 THEN "0"
    ELSE IF CharAt(d, Len(d)) = "0" THEN strip_zeros(SubSeq(d, 1, Len(d) - 1))
    ELSE d

\* A number: an integer becomes PosInt/NegInt, except -0, which serde_json
\* keeps as the float -0.0; digits with a fraction become a Float.
parse_number(s, i) ==
    LET neg == CharAt(s, i) = "-"
        b == IF neg THEN i + 1 ELSE i
        e == IF CharAt(s, b) = "0" THEN b + 1 ELSE digits_end(s, b)
        ip == digits_val(s, b, e)
        fe == digits_end(s, e + 1)
    IN IF e = b THEN Failed
       ELSE IF IsDigit(CharAt(s, e)) THEN Failed
       ELSE IF CharAt(s, e) = "."
            THEN IF fe = e + 1 THEN Failed
                 ELSE IF CharAt(s, fe) \in {"e", "E"} THEN Failed
                 ELSE Parsed(VFloat(neg, ip, strip_zeros(SubSeq(s, e + 1, fe - 1))), fe)
       ELSE IF CharAt(s, e) \in {"e", "E"} THEN Failed
       ELSE IF neg /\ ip = 0 THEN Parsed(VFloat(TRUE, 0, "0"), e)
       ELSE Parsed(VInt(IF neg THEN 0 - ip ELSE ip), e)

RECURSIVE parse_value(_, _)
RECURSIVE parse_seq(_, _, _)
RECURSIVE parse_map(_, _, _)

\* The elements of an array after "[" (or after a comma), i at an element.
parse_seq(s, i, acc) ==
    LET r == parse_value(s, i)
        j == skip_ws(s, r.i)
    IN IF ~r.ok THEN Failed
       ELSE IF CharAt(s, j) = "," THEN parse_seq(s, skip_ws(s, j + 1), Append(acc, r.v))
       ELSE IF CharAt(s, j) = "]" THEN Parsed(VArray(Append(acc, r.v)), j + 1)
       ELSE Failed

\* The members of an object after "{" (or after a comma), i at a key.  Each
\* member is inserted into the map as it is read, so of two members with one
\* key the later value wins.
parse_map(s, i, acc) ==
    LET k == IF CharAt(s, i) = "\"" THEN parse_str(s, i + 1, "") ELSE Failed
        c == skip_ws(s, k.i)
        r == IF k.ok /\ CharAt(s, c) = ":"
             THEN parse_value(s, skip_ws(s, c + 1))
             ELSE Failed
        j == skip_ws(s, r.i)
        m == insert(acc, k.v.s, r.v)
    IN IF ~r.ok THEN Failed
       ELSE IF CharAt(s, j) = "," THEN parse_map(s, skip_ws(s, j + 1), m)
       ELSE IF CharAt(s, j) = "}" THEN Parsed(VObject(m), j + 1)
       ELSE Failed

parse_value(s, i) ==
    LET c == CharAt(s, i) IN
    CASE c = "n" -> parse_ident(s, i, "null", VNull)
      [] c = "t" -> parse_ident(s, i, "true", VBool(TRUE))
      [] c = "f" -> parse_ident(s, i, "false", VBool(FALSE))
      [] c = "\"" -> parse_str(s, i + 1, "")
      [] c = "-" \/ IsDigit(c) -> parse_number(s, i)
      [] c = "[" ->
           IF CharAt(s, skip_ws(s, i + 1)) = "]"
           THEN Parsed(VArray(<<>>), skip_ws(s, i + 1) + 1)
           ELSE parse_seq(s, skip_ws(s, i + 1), <<>>)
      [] c = "{" ->
           IF CharAt(s, skip_ws(s, i + 1)) = "}"
           THEN Parsed(VObject(<<>>), skip_ws(s, i + 1) + 1)
           ELSE parse_map(s, skip_ws(s, i + 1), <<>>)
      [] OTHER -> Failed

\* from_str: one value, whitespace around it, nothing after it.
from_str(s) ==
    LET r == parse_value(s, skip_ws(s, 1)) IN
    IF r.ok /\ skip_ws(s, r.i) > Len(s) THEN r ELSE Failed

(***************************************************************************)
(* Display of a Value: compact JSON text.                                  *)
(***************************************************************************)
\* The decimal digits of a natural number.
RECURSIVE itoa(_)
itoa(n) ==
    IF n < 10 THEN SubSeq(Digits, n + 1, n + 1)
    ELSE itoa(n \div 10) \o SubSeq(Digits, (n % 10) + 1, (n % 10) + 1)

\* Number::to_string
number_to_string(v) ==
    IF v.t = "Int"
    THEN IF v.n < 0 THEN "-" \o itoa(0 - v.n) ELSE itoa(v.n)
    ELSE (IF v.neg THEN "-" ELSE "") \o itoa(v.ip) \o "." \o v.fr

\* The escaped content of a JSON string literal.
RECURSIVE escape(_)
escape(s) ==
    IF Len(s) = 0 THEN ""
    ELSE LET c == CharAt(s, 1)
             e == CASE c = "\"" -> "\\\""
                    [] c = "\\" -> "\\\\"
                    [] c = "\n" -> "\\n"
                    [] c = "\t" -> "\\t"
                    [] c = "\r" -> "\\r"
                    [] c = "\f" -> "\\f"
                    [] OTHER -> c
         IN e \o escape(SubSeq(s, 2, Len(s)))

RECURSIVE to_string(_)
RECURSIVE join_values(_)
RECURSIVE join_entries(_)

join_values(a) ==
    IF Len(a) = 0 THEN ""
    ELSE IF Len(a) = 1 THEN to_string(a[1])
    ELSE to_string(a[1]) \o "," \o join_values(Tail(a))

join_entries(m) ==
    IF Len(m) = 0 THEN ""
    ELSE LET e == "\"" \o escape(m[1][1]) \o "\":" \o to_string(m[1][2])
         IN IF Len(m) = 1 THEN e ELSE e \o "," \o join_entries(Tail(m))

\* Value::to_string
to_string(v) ==
    CASE v.t = "Null" -> "null"
      [] v.t = "Bool" -> IF v.b THEN "true" ELSE "false"
      [] v.t \in {"Int", "Float"} -> number_to_string(v)
      [] v.t = "String" -> "\"" \o escape(v.s) \o "\""
      [] v.t = "Array" -> "[" \o join_values(v.a) \o "]"
      [] v.t = "Object" -> "{" \o join_entries(v.m) \o "}"

\* Every value through Display: strings keep their quotes, null is "null".
json_to_string_display(v) == to_string(v)

\* json_to_string: the text of one CSV field.
json_to_string(v) ==
    CASE v.t = "Null" -> ""
      [] v.t = "Bool" -> IF v.b THEN "true" ELSE "false"
      [] v.t \in {"Int", "Float"} -> number_to_string(v)
      [] v.t = "String" -> v.s
      [] OTHER -> to_string(v)

(***************************************************************************)
(* The inputs.  An item of reader.lines() is Ok(text) or an error (a line  *)
(* that is not valid UTF-8).                                               *)
(***************************************************************************)
Line(s) == [ok |-> TRUE, s |-> s]

Unreadable == [ok |-> FALSE, s |-> ""]

LineSet ==
    { Line(""),
      Line(" \t"),
      Line("{\"a\":}"),
      Line("[1,2]"),
      Line("null"),
      Line("7"),
      Line("\"s\""),
      Line("{\"a\":1,\"b\":\"x,y\"}"),
      Line(" {\"b\":true,\"a\":null} "),
      Line("{\"a\":[false,\"q\"],\"c\":{\"k\":-7}}"),
      Line("{\"b\":\"\",\"a\":0,\"a\":3.5}"),
      Line("{}"),
      Unreadable }

Inputs == UNION {[1..n -> LineSet] : n \in 0..MaxLines}

\* from_str of each line of LineSet, evaluated once.
Parse == [l \in LineSet |-> from_str(l.s)]

\* line.trim().is_empty() of each line of LineSet, evaluated once.
Blank == [l \in LineSet |-> trim(l.s) = ""]

\* What the output path holds before a run when a file is already there.
OldContent == <<<<"old">>>>

(***************************************************************************)
(* Results of main.                                                        *)
(***************************************************************************)
Running == [kind |-> "Running", line |-> 0]

Ok == [kind |-> "Ok", line |-> 0]

Err(kind, line) == [kind |-> kind, line |-> line]

\* The process's exit status once main has returned.
ExitCode == IF result.kind = "Ok" THEN 0 ELSE 1

NoPrev == [result |-> Running, disk |-> <<>>, out_exists |-> FALSE, faulted |-> FALSE]

Init ==
    /\ input \in Inputs
    /\ out_exists \in BOOLEAN
    /\ disk = IF out_exists THEN OldContent ELSE <<>>
    /\ pc = "open"
    /\ idx = 0
    /\ headers = <<>>
    /\ header_written = FALSE
    /\ buf = <<>>
    /\ printed = FALSE
    /\ result = Running
    /\ faulted = FALSE
    /\ run = 1
    /\ prev = NoPrev

(***************************************************************************)
(* csv::Writer over the output file.  A writer state is [buf, disk, ok,    *)
(* fault]: ok is the Result of the last call, fault whether a write to the *)
(* file has failed.  env says whether the file accepts a write.            *)
(***************************************************************************)
Wtr == [buf |-> buf, disk |-> disk, ok |-> TRUE, fault |-> faulted]

\* Writer::flush: the buffered records go to the file; an empty buffer
\* writes nothing and cannot fail; on failure the buffer is kept.
flush(w, env) ==
    IF w.buf = <<>> THEN [w EXCEPT !.ok = TRUE]
    ELSE IF env THEN [w EXCEPT !.buf = <<>>, !.disk = w.disk \o w.buf, !.ok = TRUE]
    ELSE [w EXCEPT !.ok = FALSE, !.fault = TRUE]

\* Writer::write_record: the record is buffered; a full buffer is flushed
\* to the file first.
write_record(w, rec, env) ==
    IF Len(w.buf) < BufCap THEN [w EXCEPT !.buf = Append(w.buf, rec), !.ok = TRUE]
    ELSE LET f == flush(w, env) IN
         IF f.ok THEN [f EXCEPT !.buf = <<rec>>] ELSE f

\* A drop that does not flush.
drop_without_flush(w, env) == w

\* Drop of the writer: a flush whose error is ignored.
drop(w, env) == flush(w, env)

\* main returns res with the writer w live: w is dropped on the way out.
Return(res, w, env) ==
    LET d == drop(w, env) IN
    /\ result' = res
    /\ pc' = "done"
    /\ buf' = d.buf
    /\ disk' = d.disk
    /\ faulted' = d.fault

(***************************************************************************)
(* main.                                                                   *)
(***************************************************************************)
\* File::open(&cli.input)?
OpenInput ==
    /\ pc = "open"
    /\ \E opened \in BOOLEAN :
         IF opened
         THEN pc' = "create" /\ UNCHANGED result
         ELSE pc' = "done" /\ result' = Err("OpenError", 0)
    /\ UNCHANGED <<input, out_exists, disk, idx, headers, header_written, buf,
                   printed, faulted, run, prev>>

\* The output opened without truncation.
CreateOutput_append ==
    /\ pc = "create"
    /\ \E created \in BOOLEAN :
         IF created
         THEN pc' = "lines" /\ out_exists' = TRUE /\ UNCHANGED <<disk, result>>
         ELSE pc' = "done" /\ result' = Err("CreateError", 0)
              /\ UNCHANGED <<out_exists, disk>>
    /\ UNCHANGED <<input, idx, headers, header_written, buf, printed, faulted,
                   run, prev>>

\* Writer::from_path(&cli.output)?: the file is created or truncated.
CreateOutput ==
    /\ pc = "create"
    /\ \E created \in BOOLEAN :
         IF created
         THEN pc' = "lines" /\ out_exists' = TRUE /\ disk' = <<>> /\ UNCHANGED result
         ELSE pc' = "done" /\ result' = Err("CreateError", 0)
              /\ UNCHANGED <<out_exists, disk>>
    /\ UNCHANGED <<input, idx, headers, header_written, buf, printed, faulted,
                   run, prev>>

\* The values of obj in the order of obj's own keys.
record_own_order(obj, hs) == [i \in 1..Len(obj) |-> json_to_string(obj[i][2])]

\* The output row of obj under the header hs.
record(obj, hs) ==
    [i \in 1..Len(hs) |->
        IF contains_key(obj, hs[i]) THEN json_to_string(get(obj, hs[i])) ELSE ""]

\* The header taken from every record.
capture_every(obj) == keys(obj)

\* The header after a record obj: captured from the first record only.
capture(obj) == IF ~header_written THEN keys(obj) ELSE headers

\* The blank test without trim().
is_blank_untrimmed(line) == line.s = ""

\* if line.trim().is_empty() { continue; }
is_blank(line) == Blank[line]

\* The header row written for every record.
write_header_always(w, hs, env) == write_record(w, hs, env)

\* The header row is written when the header is captured, and only then.
write_header(w, hs, env) == IF ~header_written THEN write_record(w, hs, env) ELSE w

\* The enumerate() index reported as it is.
line_number_zero_based == idx

\* The line number an error on the current line reports.
line_number == idx + 1

\* One iteration of the loop over reader.lines().enumerate().
ProcessLine ==
    /\ pc = "lines"
    /\ idx < Len(input)
    /\ \E e1, e2, e3 \in BOOLEAN :
         LET line == input[idx + 1]
             value == Parse[line]
             obj == value.v.m
             hs == capture(obj)
             w1 == write_header(Wtr, hs, e1)
             w2 == write_record(w1, record(obj, hs), e2)
         IN  IF ~line.ok
             THEN Return(Err("ReadError", 0), Wtr, e3)
                  /\ UNCHANGED <<idx, headers, header_written>>
             ELSE IF is_blank(line)
             THEN idx' = idx + 1
                  /\ UNCHANGED <<pc, result, buf, disk, faulted, headers, header_written>>
             ELSE IF ~value.ok
             THEN Return(Err("ParseError", line_number), Wtr, e3)
                  /\ UNCHANGED <<idx, headers, header_written>>
             ELSE IF value.v.t # "Object"
             THEN Return(Err("SchemaError", line_number), Wtr, e3)
                  /\ UNCHANGED <<idx, headers, header_written>>
             ELSE IF ~w1.ok
             THEN Return(Err("WriteError", 0), w1, e3)
                  /\ headers' = hs
                  /\ UNCHANGED <<idx, header_written>>
             ELSE IF ~w2.ok
             THEN Return(Err("WriteError", 0), w2, e3)
                  /\ headers' = hs
                  /\ header_written' = TRUE
                  /\ UNCHANGED idx
             ELSE /\ idx' = idx + 1
                  /\ headers' = hs
                  /\ header_written' = TRUE
                  /\ buf' = w2.buf
                  /\ disk' = w2.disk
                  /\ faulted' = w2.fault
                  /\ UNCHANGED <<pc, result>>
    /\ UNCHANGED <<input, out_exists, printed, run, prev>>

\* println!("Conversion from {} to {} successfully completed.", ...) once the
\* lines are exhausted.
Println ==
    /\ pc = "lines"
    /\ idx = Len(input)
    /\ printed' = TRUE
    /\ pc' = "flush"
    /\ UNCHANGED <<input, out_exists, disk, idx, headers, header_written, buf,
                   result, faulted, run, prev>>

\* wtr.flush()?; Ok(())
Flush ==
    /\ pc = "flush"
    /\ \E e1, e2 \in BOOLEAN :
         LET w == flush(Wtr, e1) IN
         IF w.ok THEN Return(Ok, w, e2) ELSE Return(Err("WriteError", 0), w, e2)
    /\ UNCHANGED <<input, out_exists, idx, headers, header_written, printed,
                   run, prev>>

Next == OpenInput \/ CreateOutput \/ ProcessLine \/ Println \/ Flush

Spec == Init /\ [][Next]_vars

(***************************************************************************)
(* The converter run a second time on the same input, to another output    *)
(* path.                                                                   *)
(***************************************************************************)
RunAgain ==
    /\ pc = "done"
    /\ run = 1
    /\ run' = 2
    /\ prev' = [result |-> result, disk |-> disk, out_exists |-> out_exists,
                faulted |-> faulted]
    /\ out_exists' \in BOOLEAN
    /\ disk' = IF out_exists' THEN OldContent ELSE <<>>
    /\ pc' = "open"
    /\ idx' = 0
    /\ headers' = <<>>
    /\ header_written' = FALSE
    /\ buf' = <<>>
    /\ printed' = FALSE
    /\ result' = Running
    /\ faulted' = FALSE
    /\ UNCHANGED input

NextTwice == Next \/ RunAgain

SpecTwice == Init /\ [][NextTwice]_vars

(***************************************************************************)
(* What the properties speak of, read off the input text.                  *)
(***************************************************************************)
\* A line that is empty once its surrounding whitespace is removed.
IsBlankText(l) == l.ok /\ \A i \in 1..Len(l.s) : IsWhitespace(CharAt(l.s, i))

\* A line that is valid JSON.
IsJson(l) == l.ok /\ Parse[l].ok

\* A line that is a JSON object.
IsObjectLine(l) == IsJson(l) /\ Parse[l].v.t = "Object"

\* The non-blank lines among the first k lines, in input order.
Records(k) == SelectSeq(SubSeq(input, 1, k), LAMBDA l : ~IsBlankText(l))

\* Every non-blank line is a JSON object.
AllObjects == \A i \in 1..Len(input) : IsBlankText(input[i]) \/ IsObjectLine(input[i])

\* The position of the first non-blank line that is not a JSON object, 0 when
\* there is none.
FirstOffending ==
    LET bad == {i \in 1..Len(input) :
                  ~IsBlankText(input[i]) /\ ~IsObjectLine(input[i])}
    IN IF bad = {} THEN 0 ELSE CHOOSE i \in bad : \A j \in bad : i <= j

\* The keys of the object written in s, in the order they appear in the text
\* (a repeated key counts where it first appears).
RECURSIVE scan_keys(_, _, _, _)
scan_keys(s, i, depth, acc) ==
    LET c == CharAt(s, i)
        r == parse_str(s, i + 1, "")
        new == /\ depth = 1
               /\ CharAt(s, skip_ws(s, r.i)) = ":"
               /\ \A j \in 1..Len(acc) : acc[j] # r.v.s
    IN IF c = "" THEN acc
       ELSE IF c = "\""
            THEN IF ~r.ok THEN acc
                 ELSE scan_keys(s, r.i, depth, IF new THEN Append(acc, r.v.s) ELSE acc)
       ELSE IF c \in {"{", "["} THEN scan_keys(s, i + 1, depth + 1, acc)
       ELSE IF c \in {"}", "]"} THEN scan_keys(s, i + 1, depth - 1, acc)
       ELSE scan_keys(s, i + 1, depth, acc)

TextKeys == [l \in LineSet |-> scan_keys(l.s, 1, 0, <<>>)]

\* The field a record m gives under the column k.
FieldOf(m, k) ==
    IF \E j \in 1..Len(m) : m[j][1] = k
    THEN json_to_string(m[CHOOSE j \in 1..Len(m) : m[j][1] = k][2])
    ELSE ""

\* The row of the object line l under the header h.
RowOf(l, h) == [i \in 1..Len(h) |-> FieldOf(Parse[l].v.m, h[i])]

\* The records the writer has taken so far, in the file or still buffered.
Emitted == disk \o buf

\* main failed on the content of a line.
LineFailure == result.kind \in {"ReadError", "ParseError", "SchemaError"}

\* main failed on the environment: a file that cannot be opened, created
\* or written.
EnvFailure == result.kind \in {"OpenError", "CreateError", "WriteError"}

NoWhitespace(f) == \A i \in 1..Len(f) : ~IsWhitespace(CharAt(f, i))

NoDot(f) == \A i \in 1..Len(f) : CharAt(f, i) # "."

(***************************************************************************)
(* Properties.                                                             *)
(***************************************************************************)
\* C1: when every non-blank line is a JSON object and there is at least one,
\* a run that meets no file error succeeds and leaves exactly the header row
\* followed by one data row per non-blank line, in input order; blank lines
\* give no row.
C1_OneRowPerRecord ==
    (pc = "done" /\ AllObjects /\ Records(Len(input)) # <<>> /\ ~EnvFailure) =>
        LET recs == Records(Len(input)) IN
        /\ result = Ok
        /\ Len(disk) = 1 + Len(recs)
        /\ disk[1] = keys(Parse[recs[1]].v.m)
        /\ \A j \in 1..Len(recs) : disk[j + 1] = RowOf(recs[j], disk[1])

C1_Witness ==
    /\ pc = "done"
    /\ result = Ok
    /\ Len(input) = 3
    /\ IsBlankText(input[2])
    /\ Len(disk) = 3

C3_RowsFollowHeader ==
    header_written =>
        /\ Len(Emitted) <= 1 + Len(Records(idx))
        /\ \A j \in 2..Len(Emitted) :
             LET row == Emitted[j]
                 m == Parse[Records(idx)[j - 1]].v.m
             IN /\ Len(row) = Len(headers)
                /\ \A i \in 1..Len(headers) :
                     \/ \E e \in 1..Len(m) :
                          m[e][1] = headers[i] /\ row[i] = json_to_string(m[e][2])
                     \/ /\ \A e \in 1..Len(m) : m[e][1] # headers[i]
                        /\ row[i] = ""

C3_Witness ==
    /\ headers = <<"a", "b">>
    /\ idx = 2
    /\ TextKeys[input[2]] = <<"a", "c">>
    /\ Emitted[3] = <<"[false,\"q\"]", "">>

\* C4: when the first non-blank line that is not a JSON object is at position
\* N of the input (blank lines counted), a run that meets no file error fails
\* with ParseError(N) if the line is not valid JSON and with SchemaError(N)
\* if it is valid JSON of another kind.
C4_ErrorNamesTheLine ==
    (pc = "done" /\ FirstOffending # 0 /\ input[FirstOffending].ok /\ ~EnvFailure) =>
        result = IF IsJson(input[FirstOffending])
                 THEN Err("SchemaError", FirstOffending)
                 ELSE Err("ParseError", FirstOffending)

C4_Witness ==
    /\ pc = "done"
    /\ result = Err("SchemaError", 3)
    /\ IsBlankText(input[1])
    /\ IsObjectLine(input[2])

\* C5: when the run fails on line N after the header was written and no
\* write to the file has failed, the loop index is still at line N, which is
\* the first offending line, and the file holds exactly the header and the
\* rows of the records before line N, nothing being left in the buffer.
C5_PrefixLeftOnFailure ==
    (pc = "done" /\ LineFailure /\ header_written /\ ~faulted) =>
        LET recs == Records(idx) IN
        /\ idx + 1 = FirstOffending
        /\ buf = <<>>
        /\ Len(disk) = 1 + Len(recs)
        /\ disk[1] = headers
        /\ \A j \in 1..Len(recs) : disk[j + 1] = RowOf(recs[j], headers)

C5_Witness ==
    /\ pc = "done"
    /\ result = Err("ParseError", 2)
    /\ Len(input) = 3
    /\ IsObjectLine(input[3])
    /\ Len(disk) = 2

\* C6: when every line is blank (or there is no line) and the files open, the
\* run succeeds with exit code 0, no header is written at any point, and the
\* output file exists and is empty.
C6_BlankInputEmptyOutput ==
    (\A i \in 1..Len(input) : IsBlankText(input[i])) =>
        /\ ~header_written
        /\ buf = <<>>
        /\ (pc = "done" /\ result.kind \notin {"OpenError", "CreateError"}) =>
              /\ result = Ok
              /\ ExitCode = 0
              /\ out_exists
              /\ disk = <<>>

C6_Witness ==
    /\ pc = "done"
    /\ result = Ok
    /\ input = <<Line(""), Line(" \t")>>
    /\ out_exists
    /\ disk = <<>>

\* C7: the confirmation message is emitted only once the output has been
\* flushed, and a run that emitted it ends with exit code 0.
C7_MessageOnlyOnSuccess ==
    /\ printed => buf = <<>>
    /\ (pc = "done" /\ printed) => ExitCode = 0

\* C8: in every data row the writer has taken, a null value gives the empty
\* field, a boolean "true" or "false", an integer its decimal text (no "."
\* in it, and it reads back as that integer), a string its content without
\* quotes, an array or object a text without whitespace that reads back as
\* the same value, a float a text that reads back as the same float; an
\* absent key gives the empty field as well.
C8_FieldConversion ==
    header_written =>
        /\ Len(Emitted) <= 1 + Len(Records(idx))
        /\ \A j \in 2..Len(Emitted) : \A i \in 1..Len(headers) :
             LET m == Parse[Records(idx)[j - 1]].v.m
                 f == Emitted[j][i]
                 e == CHOOSE e \in 1..Len(m) : m[e][1] = headers[i]
                 v == m[e][2]
             IN IF \A n \in 1..Len(m) : m[n][1] # headers[i] THEN f = ""
                ELSE CASE v.t = "Null" -> f = ""
                       [] v.t = "Bool" -> f = (IF v.b THEN "true" ELSE "false")
                       [] v.t = "Int" -> NoDot(f) /\ from_str(f) = Parsed(v, Len(f) + 1)
                       [] v.t = "String" -> f = v.s
                       [] v.t \in {"Array", "Object"} ->
                            NoWhitespace(f) /\ from_str(f) = Parsed(v, Len(f) + 1)
                       [] OTHER -> from_str(f) = Parsed(v, Len(f) + 1)

C8_Witness ==
    /\ \E j \in 1..Len(Emitted) : Emitted[j] = <<"[false,\"q\"]", "">>
    /\ \E j \in 1..Len(Emitted) : Emitted[j] = <<"", "true">>
    /\ \E j \in 1..Len(Emitted) : Emitted[j] = <<"1", "x,y">>

C10_OpenBeforeCreate ==
    /\ (pc = "open" \/ result.kind = "OpenError") =>
          disk = (IF out_exists THEN OldContent ELSE <<>>)
    /\ (pc = "lines" /\ ~header_written) => (out_exists /\ disk = <<>>)
    /\ (pc = "done" /\ LineFailure /\ ~header_written) => (out_exists /\ disk = <<>>)

C10_Witness ==
    /\ pc = "done"
    /\ result = Err("ParseError", 2)
    /\ ~header_written
    /\ disk = <<>>

=============================================================================
